---- MODULE Spec2Model ----
(***************************************************************************)
(* Checkout and payment-settlement pipeline of the e-commerce REST API:    *)
(* the cart routes (routes/cart.js), the direct checkout (routes/order.js) *)
(* and the Stripe webhook settlement (routes/payment.js), over the tables  *)
(* of the initial migration.  Money is counted in cents.  Every request    *)
(* runs in a slot p of Procs; the steps of a handler are cut at the awaits *)
(* where another request can observe or change the store.                  *)
(***************************************************************************)
EXTENDS Integers, Sequences, FiniteSets, TLC

\* ---------------------------------------------------------------- bounds
MaxStock == 2
MaxQty == 2
MaxRequests == 3
MaxClock == 1
FloatScale == 1000
MaxAccounts == 6

Users == {1, 2}
Carts == 1..Cardinality(Users)
Variants == {1, 2}
Products == {1, 2}
\* The ids a request can name: those of the catalog and one that no row has.
VariantIds == Variants \cup {3}
ProductIds == Products \cup {3}
Procs == {1, 2}
Payments == {1, 2}

\* ------------------------------------------------------------- constants
endpointSecret == "whsec"
Keys == {"whsec", "forged"}
EventTypes == {"checkout.session.completed", "checkout.session.expired", "other"}
CatalogPrice == [v \in Variants |-> IF v = 1 THEN 10 ELSE 1999]
\* product_variants.product_id: each variant belongs to one product.
ProductOf == [v \in Variants |-> v]
OrderSteps == 1..4
FloatErr == {-1, 0, 1}

VARIABLES stock, price, carts, items, orders, txns, sessions, wishlists, catalog, accounts, now,
          pc, req, loc, resp, outcome, nreq

dbvars == <<stock, carts, items, orders, txns>>
vars == <<stock, price, carts, items, orders, txns, sessions, wishlists, catalog, accounts, now,
          pc, req, loc, resp, outcome, nreq>>

\* ------------------------------------------------------------ row shapes
NoItem == [quantity |-> 0, itemPrice |-> 0, productId |-> 0]
NoCart == [exists |-> FALSE, userId |-> 0, cartStatus |-> "NONE", totalPrice |-> 0,
           orderId |-> 0]
NewCart == [exists |-> TRUE, userId |-> 0, cartStatus |-> "ACTIVE", totalPrice |-> 0,
            orderId |-> 0]
EmptyItems == [v \in Variants |-> NoItem]
NoLine == [quantity |-> 0, price |-> 0, total |-> 0, productId |-> 0]
NoLines == [v \in Variants |-> NoLine]
NoReq == [kind |-> "none", userId |-> 0, cartId |-> 0, productId |-> 0, variantId |-> 0,
          quantity |-> 0, stripeId |-> 0, type |-> "none", sig |-> "none"]
NoLoc == [cartId |-> 0, lines |-> NoLines, total |-> 0, orderNumber |-> <<>>,
          status |-> 0]

\* The catalog as the seed leaves it: every product and every variant has its
\* row, and a product's price is the price of its variant.
FullCatalog ==
    [products |-> [pid \in Products |-> [exists |-> TRUE, price |-> CatalogPrice[pid]]],
     variants |-> [v \in Variants |-> [exists |-> TRUE]]]

\* users: the two customers, the shop's owner, and the ids that the next
\* registrations take.
AccountIds == 1..MaxAccounts
Roles == {"USER", "ADMIN", "OWNER"}
NoAccount == [exists |-> FALSE, role |-> "NONE"]
InitAccounts ==
    [a \in AccountIds |-> IF a \in Users THEN [exists |-> TRUE, role |-> "USER"]
                          ELSE IF a = 3 THEN [exists |-> TRUE, role |-> "OWNER"]
                          ELSE NoAccount]

RECURSIVE SumOver(_, _)
SumOver(f, S) ==
    IF S = {} THEN 0
    ELSE LET x == CHOOSE y \in S : TRUE IN f[x] + SumOver(f, S \ {x})

ItemRows(its) == {v \in Variants : its[v].quantity > 0}
LineRows(ls) == {v \in Variants : ls[v].quantity > 0}

\* The cart rows of user u, and those of them a findFirst on
\* {userId, cartStatus: 'ACTIVE'} can return.
CartsOfUser(cs, u) == {c \in Carts : cs[c].exists /\ cs[c].userId = u}
ActiveCarts(cs, u) == {c \in CartsOfUser(cs, u) : cs[c].cartStatus = "ACTIVE"}

\* The id that the SERIAL column gives the next cart row.
FreeCartIds(cs) == {c \in Carts : ~cs[c].exists}
NextCartId(cs) == CHOOSE c \in FreeCartIds(cs) : \A d \in FreeCartIds(cs) : c <= d

\* The carts table without shopping_carts_user_id_key.
UserIdTakenNoIndex(cs, u) == FALSE

\* shopping_carts_user_id_key: a cart row of the user exists, whatever its
\* status.
UserIdTaken(cs, u) == CartsOfUser(cs, u) # {}

\* ------------------------------------------------------------ arithmetic
\* A JavaScript Number holding an amount of money: the amount in units of
\* 1/FloatScale cent, off by the rounding error e of the binary format.
parseFloat(cents, e) == cents * FloatScale + e

\* A Number written to a DECIMAL(10,2) column is rounded to whole cents.
DecimalColumn(x) == (x + FloatScale \div 2) \div FloatScale

\* calculateTotalPrice adding up the unit prices, the quantity forgotten.
calculateTotalPriceNoQuantity(its, e) ==
    SumOver([v \in Variants |-> IF its[v].quantity > 0
                                THEN parseFloat(its[v].itemPrice, e) + e
                                ELSE 0],
            Variants)

\* utils/cartUtils.js: items.reduce((total, item) => total + price * qty, 0)
calculateTotalPrice(its, e) ==
    SumOver([v \in Variants |-> IF its[v].quantity > 0
                                THEN parseFloat(its[v].itemPrice, e) * its[v].quantity + e
                                ELSE 0],
            Variants)

\* The exact decimal sum of itemPrice x quantity, in cents.
ExactTotal(its) ==
    SumOver([v \in Variants |-> its[v].itemPrice * its[v].quantity], Variants)

\* ----------------------------------------------------------- transactions
\* The store as one value, so that a transaction body can be run on a copy.
DB == [stock |-> stock, carts |-> carts, items |-> items,
       orders |-> orders, txns |-> txns, err |-> FALSE]

\* Stmt with the failure of a statement caught inside the body: the statement
\* is skipped and the body goes on.
StmtSwallow(d, fails, effect) == IF fails THEN d ELSE effect

\* One statement of a transaction body: skipped once an earlier statement
\* has thrown, throwing itself when it fails, else yielding its effect.
Stmt(d, fails, effect) ==
    IF d.err THEN d ELSE IF fails THEN [d EXCEPT !.err = TRUE] ELSE effect

\* The statements run on the plain client: what was written before the throw
\* stays written.
TransactionNoRollback(before, after) == after

\* prisma.$transaction(async (tx) => ...): commit the body's writes, or
\* roll all of them back when the body throws.
Transaction(before, after) == IF after.err THEN before ELSE after

Commit(d) ==
    /\ stock' = d.stock
    /\ carts' = d.carts
    /\ items' = d.items
    /\ orders' = d.orders
    /\ txns' = d.txns

\* The handler in slot p answers with an HTTP status and the slot is free.
Finish(p, status, what) ==
    /\ pc' = [pc EXCEPT ![p] = "idle"]
    /\ resp' = [resp EXCEPT ![p] = status]
    /\ outcome' = [outcome EXCEPT ![p] = what]
    /\ loc' = [loc EXCEPT ![p] = NoLoc]

\* The handler in slot p goes on to its next await, with local variables l.
Goto(p, at, l) ==
    /\ pc' = [pc EXCEPT ![p] = at]
    /\ resp' = [resp EXCEPT ![p] = 0]
    /\ outcome' = [outcome EXCEPT ![p] = "running"]
    /\ loc' = [loc EXCEPT ![p] = l]

\* The request r arrives in the free slot p; slots are interchangeable, so a
\* request takes the lowest free one.
Begin(p, r) ==
    /\ pc[p] = "idle"
    /\ \A q \in Procs : q < p => pc[q] # "idle"
    /\ nreq < MaxRequests
    /\ nreq' = nreq + 1
    /\ req' = [req EXCEPT ![p] = r]

OrderNumberTaken(d, n) ==
    \E i \in 1..Len(d.orders) : d.orders[i].orderNumber = n

\* The transactions table without order_transactions_stripe_id_key.
StripeIdTakenNoIndex(d, id) == FALSE

StripeIdTaken(d, id) == \E t \in d.txns : t.stripeId = id

\* ------------------------------------------------- routes/payment.js
\* POST /payment/checkout-session arrives; a body without cartId is answered
\* 400.
CreateSessionBegin(p) ==
    \E u \in Users, c \in Carts \cup {0} :
        /\ Begin(p, [NoReq EXCEPT !.kind = "createSession", !.userId = u, !.cartId = c])
        /\ IF c = 0 THEN Finish(p, 400, "cartId_required")
                    ELSE Goto(p, "sessFindCart", NoLoc)
        /\ UNCHANGED <<stock, price, carts, items, orders, txns, sessions, wishlists, catalog, accounts, now>>

\* The pre-check that lets every cart through.
PreCheckOffendersNone(its, stk) == {}

\* The items that fail the stock pre-check of createCheckoutSession.
PreCheckOffenders(its, stk) == {v \in ItemRows(its) : stk[v] < its[v].quantity}

\* The error of the pre-check names the product of the offending item.
StockMessage == [pid \in ProductIds |->
                   IF pid = 1 THEN "insufficient_stock_product_1"
                   ELSE IF pid = 2 THEN "insufficient_stock_product_2"
                   ELSE "insufficient_stock_product_3"]

\* lineItems of createCheckoutSession: per cart item the quantity and the
\* variant's price in cents as unit_amount.
lineItems(its, pr) ==
    [v \in Variants |->
        IF its[v].quantity > 0
        THEN [quantity |-> its[v].quantity, price |-> pr[v], total |-> 0,
              productId |-> its[v].productId]
        ELSE NoLine]

\* shoppingCart.findUnique with its items and their variants, and the checks
\* made on what it returned: 404 for a cart that is missing or not the
\* caller's, 400 for an empty cart and for the first item short of stock.
CreateSessionFind(p) ==
    LET c == req[p].cartId
    IN  /\ pc[p] = "sessFindCart"
        /\ IF ~carts[c].exists \/ carts[c].userId # req[p].userId
           THEN Finish(p, 404, "cart_not_found")
           ELSE IF ItemRows(items[c]) = {}
           THEN Finish(p, 400, "cart_empty")
           ELSE IF PreCheckOffenders(items[c], stock) # {}
           THEN \E v \in PreCheckOffenders(items[c], stock) :
                   Finish(p, 400, StockMessage[items[c][v].productId])
           ELSE Goto(p, "sessCreate",
                     [NoLoc EXCEPT !.cartId = c, !.lines = lineItems(items[c], price)])
        /\ UNCHANGED <<stock, price, carts, items, orders, txns, sessions, wishlists, catalog, accounts, now, req, nreq>>

\* What the gateway charges for a session: the sum of unit_amount x quantity
\* over the line items it was created with.
AmountCharged(ls) == SumOver([v \in Variants |-> ls[v].price * ls[v].quantity], Variants)

\* The payment ids that the gateway has not given out yet.
FreshPayments == {i \in Payments : \A s \in sessions : s.stripeId # i}

\* stripe.checkout.sessions.create with the line items, and the user and cart
\* as metadata: the gateway opens a session for their amount, or the call
\* throws and the catch answers 500.
CreateSessionGateway(p) ==
    /\ pc[p] = "sessCreate"
    /\ \/ /\ sessions' = sessions
          /\ Finish(p, 500, "gateway_error")
       \/ /\ FreshPayments # {}
          /\ LET id == CHOOSE i \in FreshPayments : \A j \in FreshPayments : i <= j
             IN  sessions' = sessions \cup {[stripeId |-> id, userId |-> req[p].userId,
                                             cartId |-> loc[p].cartId,
                                             amount |-> AmountCharged(loc[p].lines)]}
          /\ Finish(p, 200, "session_created")
    /\ UNCHANGED <<stock, price, carts, items, orders, txns, wishlists, catalog, accounts, now, req, nreq>>

\* constructEvent replaced by a plain parse of the body.
constructEventNoVerify(sig, secret) == TRUE

\* stripe.webhooks.constructEvent: the signature verifies only when the
\* payload was signed with the endpoint's secret.
constructEvent(sig, secret) == sig = secret

\* handleStripeWebhook up to its first await: verify, then dispatch.
handleStripeWebhook(p) ==
    \E s \in sessions, type \in EventTypes, key \in Keys :
        /\ Begin(p, [NoReq EXCEPT !.kind = "webhook", !.userId = s.userId,
                                  !.cartId = s.cartId, !.stripeId = s.stripeId,
                                  !.type = type, !.sig = key])
        /\ IF ~constructEvent(key, endpointSecret)
           THEN Finish(p, 400, "invalid_signature")
           ELSE IF type = "checkout.session.completed"
                THEN Goto(p, "findCart", NoLoc)
                ELSE Finish(p, 200, "ignored")
        /\ UNCHANGED <<stock, price, carts, items, orders, txns, sessions, wishlists, catalog, accounts, now>>

\* The stock check testing for an empty shelf instead of the quantity.
InsufficientStockOutOnly(its, stk) ==
    \E v \in ItemRows(its) : stk[v] <= 0

\* The final stock check of the settlement loop, on the cart as read.
InsufficientStock(its, stk) ==
    \E v \in ItemRows(its) : stk[v] < its[v].quantity

\* The line items with the line total left at the unit price.
lineItemsDataUnitTotal(its, pr) ==
    [v \in Variants |->
        IF its[v].quantity > 0
        THEN [quantity |-> its[v].quantity, price |-> pr[v], total |-> pr[v],
              productId |-> its[v].productId]
        ELSE NoLine]

\* lineItemsData of handleCheckoutSessionCompleted: one entry per cart item,
\* priced with item.variant.price as the cart query returned it.
lineItemsData(its, pr) ==
    [v \in Variants |->
        IF its[v].quantity > 0
        THEN [quantity |-> its[v].quantity, price |-> pr[v],
              total |-> pr[v] * its[v].quantity, productId |-> its[v].productId]
        ELSE NoLine]

\* totalAmount declared as a Decimal, whose toNumber() never throws.
toNumberThrowsNever(its) == FALSE

\* totalAmount.toNumber(): totalAmount starts as the Number 0 and becomes a
\* Decimal in the loop, so for a cart without items it is still a Number,
\* which has no toNumber, and the call throws a TypeError.
toNumberThrows(its) == ItemRows(its) = {}

\* handleCheckoutSessionCompleted: the cart read and the loop over its items.
\* An empty cart leaves totalAmount the Number 0, whose toNumber() throws
\* into the function's own catch.
handleCheckoutSessionCompleted(p) ==
    LET c == req[p].cartId
        lines == lineItemsData(items[c], price)
    IN  /\ pc[p] = "findCart"
        /\ IF ~carts[c].exists
           THEN Finish(p, 200, "cart_not_found")
           ELSE IF InsufficientStock(items[c], stock)
           THEN Finish(p, 200, "overselling")
           ELSE IF toNumberThrows(items[c])
           THEN Finish(p, 200, "error")
           ELSE Goto(p, "settle", [NoLoc EXCEPT !.cartId = c, !.lines = lines,
                        !.total = SumOver([v \in Variants |-> lines[v].total], Variants),
                        !.orderNumber = <<now, req[p].userId>>])
        /\ UNCHANGED <<stock, price, carts, items, orders, txns, sessions, wishlists, catalog, accounts, now, req, nreq>>

\* The body of the settlement transaction, failing at statement failAt (0: no
\* injected failure); the unique indexes on order_number and stripe_id fail
\* the inserts that would duplicate a key.
SettlementBody(d, p, failAt, e) ==
    LET orderTotal == DecimalColumn(parseFloat(loc[p].total, e))
        newOrder == [userId |-> req[p].userId, status |-> "processing",
                     financialStatus |-> "paid", fulfillmentStatus |-> "unfulfilled",
                     total |-> orderTotal, orderNumber |-> loc[p].orderNumber,
                     lines |-> loc[p].lines, cartId |-> loc[p].cartId]
        d1 == Stmt(d, failAt = 1,
                   [d EXCEPT !.stock = [v \in Variants |->
                                          d.stock[v] - loc[p].lines[v].quantity]])
        d2 == Stmt(d1, failAt = 2 \/ OrderNumberTaken(d1, loc[p].orderNumber),
                   [d1 EXCEPT !.orders = Append(d1.orders, newOrder)])
        d3 == Stmt(d2, failAt = 3 \/ StripeIdTaken(d2, req[p].stripeId),
                   [d2 EXCEPT !.txns = d2.txns \cup
                        {[orderId |-> Len(d2.orders), stripeId |-> req[p].stripeId,
                          status |-> "succeeded", amount |-> orderTotal]}])
        d4 == Stmt(d3, failAt = 4,
                   [d3 EXCEPT !.items[loc[p].cartId] = EmptyItems])
    IN  d4

\* handleCheckoutSessionCompleted: prisma.$transaction and the catch that logs
\* and swallows whatever it throws; handleStripeWebhook then answers 200.
SettleTransaction(p) ==
    /\ pc[p] = "settle"
    /\ \E failAt \in {0} \cup OrderSteps, e \in FloatErr :
         LET after == SettlementBody(DB, p, failAt, e)
         IN  /\ Commit(Transaction(DB, after))
             /\ Finish(p, 200, IF ~after.err THEN "settled"
                               ELSE IF failAt = 0 THEN "P2002" ELSE "tx_error")
    /\ UNCHANGED <<price, sessions, wishlists, catalog, accounts, now, req, nreq>>

\* Date.now() advances; the time is read only by a settlement that is
\* about to build its order number.
Tick ==
    /\ now < MaxClock
    /\ now' = now + 1
    /\ \E p \in Procs : pc[p] = "findCart"
    /\ UNCHANGED <<stock, price, carts, items, orders, txns, sessions, wishlists,
                   catalog, accounts, pc, req, loc, resp, outcome, nreq>>

\* --------------------------------------------------- routes/order.js
\* The catch block recognising only the missing cart.
CheckoutCatchOnlyNoCart(message) ==
    IF message = "No active cart found to checkout." THEN 400 ELSE 500

\* The catch block of POST /orders: the two business-rule errors are answered
\* 400, every other error 500.
CheckoutCatch(message) ==
    IF message \in {"No active cart found to checkout.",
                    "Cart is empty. Cannot create an order."}
    THEN 400 ELSE 500

\* POST /orders: the request enters the transaction callback.
CheckoutBegin(p) ==
    \E u \in Users :
        /\ Begin(p, [NoReq EXCEPT !.kind = "checkout", !.userId = u])
        /\ Goto(p, "findActiveCart", NoLoc)
        /\ UNCHANGED <<stock, price, carts, items, orders, txns, sessions, wishlists, catalog, accounts, now>>

\* The order items taking one unit of every cart item.
orderItemsDataOneEach(its) ==
    [v \in Variants |->
        IF its[v].quantity > 0
        THEN [quantity |-> 1, price |-> its[v].itemPrice, total |-> its[v].itemPrice,
              productId |-> its[v].productId]
        ELSE NoLine]

\* orderItemsData of POST /orders: one entry per cart item, with the item's
\* product, variant, quantity and itemPrice as priceAtPurchase.
orderItemsData(its) ==
    [v \in Variants |->
        IF its[v].quantity > 0
        THEN [quantity |-> its[v].quantity, price |-> its[v].itemPrice,
              total |-> its[v].itemPrice * its[v].quantity,
              productId |-> its[v].productId]
        ELSE NoLine]

\* tx.cart.findFirst({userId, cartStatus: 'ACTIVE'}) and the two guards, whose
\* errors the catch block turns into 400.
CheckoutFind(p) ==
    LET u == req[p].userId
        lines(c) == orderItemsData(items[c])
    IN  /\ pc[p] = "findActiveCart"
        /\ IF ActiveCarts(carts, u) = {}
           THEN Finish(p, CheckoutCatch("No active cart found to checkout."),
                       "no_active_cart")
           ELSE \E c \in ActiveCarts(carts, u) :
                  IF ItemRows(items[c]) = {}
                  THEN Finish(p, CheckoutCatch("Cart is empty. Cannot create an order."),
                              "cart_empty")
                  ELSE Goto(p, "createOrder",
                            [NoLoc EXCEPT !.cartId = c, !.lines = lines(c)])
        /\ UNCHANGED <<stock, price, carts, items, orders, txns, sessions, wishlists, catalog, accounts, now, req, nreq>>

\* The cart items as the transaction read them, for calculateTotalPrice.
SnapshotItems(ls) ==
    [v \in Variants |-> [quantity |-> ls[v].quantity, itemPrice |-> ls[v].price]]

\* Steps 3 to 8 of the checkout transaction, failing at statement failAt.
CheckoutBody(d, p, failAt, e) ==
    LET c == loc[p].cartId
        calculatedTotal == calculateTotalPrice(SnapshotItems(loc[p].lines), e)
        newOrder == [userId |-> req[p].userId, status |-> "PENDING",
                     financialStatus |-> "pending", fulfillmentStatus |-> "unfulfilled",
                     total |-> DecimalColumn(calculatedTotal), orderNumber |-> <<>>,
                     lines |-> NoLines, cartId |-> c]
        d1 == Stmt(d, failAt = 1, [d EXCEPT !.orders = Append(d.orders, newOrder)])
        d2 == Stmt(d1, failAt = 2,
                   [d1 EXCEPT !.orders[Len(d1.orders)].lines = loc[p].lines])
        d3 == Stmt(d2, failAt = 3,
                   [d2 EXCEPT !.carts[c].cartStatus = "COMPLETED",
                              !.carts[c].orderId = Len(d2.orders)])
        d4 == Stmt(d3, failAt = 4, [d3 EXCEPT !.items[c] = EmptyItems])
    IN  d4

\* The writes of the checkout transaction, its commit or rollback, and the
\* response: 201, or 500 from the catch block.
CheckoutWrite(p) ==
    /\ pc[p] = "createOrder"
    /\ \E failAt \in {0} \cup OrderSteps, e \in FloatErr :
         LET after == CheckoutBody(DB, p, failAt, e)
         IN  /\ Commit(Transaction(DB, after))
             /\ IF after.err THEN Finish(p, CheckoutCatch("transaction failed"), "tx_error")
                             ELSE Finish(p, 201, "order_created")
    /\ UNCHANGED <<price, sessions, wishlists, catalog, accounts, now, req, nreq>>

\* ---------------------------------------------------- routes/cart.js
\* product.findUnique and productVariant.findUnique return a row.
ProductExists(pid) == pid \in Products /\ catalog.products[pid].exists
VariantExists(v) == v \in Variants /\ catalog.variants[v].exists

AllIdle == \A p \in Procs : pc[p] = "idle"

\* The rows of a cart as a query returns them to the handler.
ReadItems(its) ==
    [v \in Variants |-> [quantity |-> its[v].quantity, price |-> its[v].itemPrice,
                         total |-> 0, productId |-> its[v].productId]]

\* POST /cart/items arrives with a body that cartItemAddSchema accepts.
AddItemRequest(p, u, pid, v, qty) ==
    /\ Begin(p, [NoReq EXCEPT !.kind = "addItem", !.userId = u, !.productId = pid,
                !.variantId = v, !.quantity = qty])
    /\ Goto(p, "addFindCart", NoLoc)
    /\ UNCHANGED <<stock, price, carts, items, orders, txns, sessions, wishlists, catalog, accounts, now>>

\* Any validated body: positive integer ids, of the catalog or not, and a
\* positive quantity.
AddItemBegin(p) ==
    \E u \in Users, pid \in ProductIds, v \in VariantIds, qty \in 1..MaxQty :
        AddItemRequest(p, u, pid, v, qty)

\* The request of the storefront: one unit of a variant, named with its
\* product.
AddItemOfCatalog(p) ==
    \E u \in Users, v \in Variants : AddItemRequest(p, u, ProductOf[v], v, 1)

\* One unit of a variant of the catalog, named with a product of the catalog.
AddItemOfProducts(p) ==
    \E u \in Users, pid \in Products, v \in Variants : AddItemRequest(p, u, pid, v, 1)

\* prisma.cart.findFirst({userId, cartStatus: 'ACTIVE'})
AddItemFindCart(p) ==
    LET u == req[p].userId
    IN  /\ pc[p] = "addFindCart"
        /\ IF ActiveCarts(carts, u) # {}
           THEN \E c \in ActiveCarts(carts, u) :
                  Goto(p, "addFindItem", [NoLoc EXCEPT !.cartId = c])
           ELSE Goto(p, "addCreateCart", NoLoc)
        /\ UNCHANGED <<stock, price, carts, items, orders, txns, sessions, wishlists, catalog, accounts, now, req, nreq>>

\* prisma.cart.create: shopping_carts_user_id_key rejects a second cart row of
\* the user, and the catch block answers 500 to anything but P2003.
AddItemCreateCart(p) ==
    LET u == req[p].userId
        c == NextCartId(carts)
    IN  /\ pc[p] = "addCreateCart"
        /\ IF UserIdTaken(carts, u)
           THEN Finish(p, 500, "P2002_user_id") /\ UNCHANGED carts
           ELSE /\ FreeCartIds(carts) # {}
                /\ carts' = [carts EXCEPT ![c] = [NewCart EXCEPT !.userId = u]]
                /\ Goto(p, "addFindItem", [NoLoc EXCEPT !.cartId = c])
        /\ UNCHANGED <<stock, price, items, orders, txns, sessions, wishlists, catalog, accounts, now, req, nreq>>

\* prisma.cartItem.findFirst({cartId, productId, variantId}), then
\* productVariant.findUnique by the variant id alone: 404 when no variant has
\* the id.
AddItemFindItem(p) ==
    LET c == loc[p].cartId
        v == req[p].variantId
        cartItem == IF VariantExists(v) /\ items[c][v].quantity > 0
                       /\ items[c][v].productId = req[p].productId
                    THEN items[c][v].quantity ELSE 0
    IN  /\ pc[p] = "addFindItem"
        /\ IF ~VariantExists(v)
           THEN Finish(p, 404, "variant_not_found")
           ELSE Goto(p, "addWriteItem",
                     [loc[p] EXCEPT !.lines[v] = [quantity |-> cartItem, price |-> price[v],
                                                  total |-> 0,
                                                  productId |-> req[p].productId]])
        /\ UNCHANGED <<stock, price, carts, items, orders, txns, sessions, wishlists, catalog, accounts, now, req, nreq>>

\* cartItem.update({quantity: cartItem.quantity + qty, itemPrice}) when the
\* item was found, else cartItem.create.  The catch block answers 404 to a
\* product id without a row (P2003) and 500 to a row that is gone (P2025) or
\* that cart_items_cart_id_variant_id_key rejects (P2002).
AddItemWrite(p) ==
    LET c == loc[p].cartId
        v == req[p].variantId
        found == loc[p].lines[v].quantity > 0
        present == items[c][v].quantity > 0
        newQuantity == loc[p].lines[v].quantity + req[p].quantity
    IN  /\ pc[p] = "addWriteItem"
        /\ IF found /\ ~present
           THEN Finish(p, 500, "P2025") /\ UNCHANGED items
           ELSE IF ~found /\ (~ProductExists(req[p].productId) \/ ~VariantExists(v))
           THEN Finish(p, 404, "P2003") /\ UNCHANGED items
           ELSE IF ~found /\ present
           THEN Finish(p, 500, "P2002") /\ UNCHANGED items
           ELSE /\ items' = [items EXCEPT ![c][v] =
                               IF found
                               THEN [@ EXCEPT !.quantity = newQuantity,
                                              !.itemPrice = loc[p].lines[v].price]
                               ELSE [quantity |-> req[p].quantity,
                                     itemPrice |-> loc[p].lines[v].price,
                                     productId |-> req[p].productId]]
                /\ Goto(p, "findItems", [loc[p] EXCEPT !.status = IF found THEN 200 ELSE 201])
        /\ UNCHANGED <<stock, price, carts, orders, txns, sessions, wishlists, catalog, accounts, now, req, nreq>>

\* GET /cart arrives.
GetCartBegin(p) ==
    \E u \in Users :
        /\ Begin(p, [NoReq EXCEPT !.kind = "getCart", !.userId = u])
        /\ Goto(p, "getFindCart", NoLoc)
        /\ UNCHANGED <<stock, price, carts, items, orders, txns, sessions, wishlists, catalog, accounts, now>>

\* prisma.cart.findFirst({userId, cartStatus: 'ACTIVE'}, include items).  The
\* stored totalPrice is a Decimal object and the recomputed one a Number, so
\* the !== of line 62 is always true and the total is always rewritten.
GetCartFind(p) ==
    LET u == req[p].userId
    IN  /\ pc[p] = "getFindCart"
        /\ IF ActiveCarts(carts, u) # {}
           THEN \E c \in ActiveCarts(carts, u) :
                  Goto(p, "getUpdateTotal",
                       [NoLoc EXCEPT !.cartId = c, !.lines = ReadItems(items[c])])
           ELSE Goto(p, "getCreateCart", NoLoc)
        /\ UNCHANGED <<stock, price, carts, items, orders, txns, sessions, wishlists, catalog, accounts, now, req, nreq>>

\* prisma.cart.create of GET /cart, answered 201; the catch block answers 500
\* when shopping_carts_user_id_key rejects the row.
GetCartCreate(p) ==
    LET u == req[p].userId
        c == NextCartId(carts)
    IN  /\ pc[p] = "getCreateCart"
        /\ IF UserIdTaken(carts, u)
           THEN Finish(p, 500, "P2002_user_id") /\ UNCHANGED carts
           ELSE /\ FreeCartIds(carts) # {}
                /\ carts' = [carts EXCEPT ![c] = [NewCart EXCEPT !.userId = u]]
                /\ Finish(p, 201, "cart_created")
        /\ UNCHANGED <<stock, price, items, orders, txns, sessions, wishlists, catalog, accounts, now, req, nreq>>

\* prisma.cart.update({totalPrice}) of GET /cart, answered 200.
GetCartUpdateTotal(p) ==
    /\ pc[p] = "getUpdateTotal"
    /\ \E e \in FloatErr :
         LET totalPrice == calculateTotalPrice(SnapshotItems(loc[p].lines), e)
         IN  carts' = [carts EXCEPT ![loc[p].cartId].totalPrice = DecimalColumn(totalPrice)]
    /\ Finish(p, 200, "cart_found")
    /\ UNCHANGED <<stock, price, items, orders, txns, sessions, wishlists, catalog, accounts, now, req, nreq>>

\* PUT /cart/items/:itemId arrives, validated; the item is named by its cart
\* and variant.
UpdateItemBegin(p) ==
    \E u \in Users, c \in Carts, v \in Variants, newQty \in 1..MaxQty :
        /\ Begin(p, [NoReq EXCEPT !.kind = "updateItem", !.userId = u, !.cartId = c,
                    !.variantId = v, !.quantity = newQty])
        /\ Goto(p, "updFindItem", NoLoc)
        /\ UNCHANGED <<stock, price, carts, items, orders, txns, sessions, wishlists, catalog, accounts, now>>

\* DELETE /cart/items/:itemId arrives.
RemoveItemBegin(p) ==
    \E u \in Users, c \in Carts, v \in Variants :
        /\ Begin(p, [NoReq EXCEPT !.kind = "removeItem", !.userId = u, !.cartId = c,
                    !.variantId = v])
        /\ Goto(p, "remFindItem", NoLoc)
        /\ UNCHANGED <<stock, price, carts, items, orders, txns, sessions, wishlists, catalog, accounts, now>>

\* The item lookup of PUT and DELETE without the ownership check.
ItemFindNoOwner(p, at, next) ==
    LET c == req[p].cartId
        v == req[p].variantId
    IN  /\ pc[p] = at
        /\ IF items[c][v].quantity = 0
           THEN Finish(p, 404, "item_not_found")
           ELSE Goto(p, next, [NoLoc EXCEPT !.cartId = c])
        /\ UNCHANGED <<stock, price, carts, items, orders, txns, sessions, wishlists, catalog, accounts, now, req, nreq>>

\* cartItem.findUnique({include: {cart}}) and the ownership check shared by
\* PUT and DELETE: 404 without the row, 403 unless it is in the caller's
\* ACTIVE cart.
ItemFind(p, at, next) ==
    LET c == req[p].cartId
        v == req[p].variantId
    IN  /\ pc[p] = at
        /\ IF items[c][v].quantity = 0
           THEN Finish(p, 404, "item_not_found")
           ELSE IF carts[c].userId # req[p].userId \/ carts[c].cartStatus # "ACTIVE"
           THEN Finish(p, 403, "forbidden")
           ELSE Goto(p, next, [NoLoc EXCEPT !.cartId = c])
        /\ UNCHANGED <<stock, price, carts, items, orders, txns, sessions, wishlists, catalog, accounts, now, req, nreq>>

UpdateItemFind(p) == ItemFind(p, "updFindItem", "updWriteItem")

RemoveItemFind(p) == ItemFind(p, "remFindItem", "remDeleteItem")

\* cartItem.update({quantity: newQty}); P2025 is answered 404.
UpdateItemWrite(p) ==
    LET c == req[p].cartId
        v == req[p].variantId
    IN  /\ pc[p] = "updWriteItem"
        /\ IF items[c][v].quantity = 0
           THEN Finish(p, 404, "P2025") /\ UNCHANGED items
           ELSE /\ items' = [items EXCEPT ![c][v].quantity = req[p].quantity]
                /\ Goto(p, "findItems", [loc[p] EXCEPT !.status = 200])
        /\ UNCHANGED <<stock, price, carts, orders, txns, sessions, wishlists, catalog, accounts, now, req, nreq>>

\* cartItem.delete; P2025 is answered 404.
RemoveItemDelete(p) ==
    LET c == req[p].cartId
        v == req[p].variantId
    IN  /\ pc[p] = "remDeleteItem"
        /\ IF items[c][v].quantity = 0
           THEN Finish(p, 404, "P2025") /\ UNCHANGED items
           ELSE /\ items' = [items EXCEPT ![c][v] = NoItem]
                /\ Goto(p, "findItems", [loc[p] EXCEPT !.status = 204])
        /\ UNCHANGED <<stock, price, carts, orders, txns, sessions, wishlists, catalog, accounts, now, req, nreq>>

\* The recomputation that ends the three handlers: cartItem.findMany ...
RecalcFindItems(p) ==
    /\ pc[p] = "findItems"
    /\ Goto(p, "updateTotal", [loc[p] EXCEPT !.lines = ReadItems(items[loc[p].cartId])])
    /\ UNCHANGED <<stock, price, carts, items, orders, txns, sessions, wishlists, catalog, accounts, now, req, nreq>>

\* ... and cart.update({totalPrice: calculateTotalPrice(allItems)}), then the
\* response.
RecalcUpdateTotal(p) ==
    /\ pc[p] = "updateTotal"
    /\ \E e \in FloatErr :
         LET newTotalPrice == calculateTotalPrice(SnapshotItems(loc[p].lines), e)
         IN  carts' = [carts EXCEPT ![loc[p].cartId].totalPrice =
                                         DecimalColumn(newTotalPrice)]
    /\ Finish(p, loc[p].status, "done")
    /\ UNCHANGED <<stock, price, items, orders, txns, sessions, wishlists, catalog, accounts, now, req, nreq>>

\* ------------------------------------------------ routes/wishlist.js
\* The rows of the wishlist of user u for variant v.
WishlistRows(w, u, v) ==
    {i \in 1..Len(w) : w[i].userId = u /\ w[i].variantId = v}

\* The wishlists table without wishlists_user_id_variant_id_key.
WishlistPairTakenNoIndex(w, u, v) == FALSE

\* wishlists_user_id_variant_id_key
WishlistPairTaken(w, u, v) == WishlistRows(w, u, v) # {}

\* The rows of w that are not in the set of positions gone.
RECURSIVE WithoutRows(_, _)
WithoutRows(w, gone) ==
    IF w = <<>> THEN <<>>
    ELSE LET rest == WithoutRows(SubSeq(w, 1, Len(w) - 1), gone)
         IN  IF Len(w) \in gone THEN rest ELSE Append(rest, w[Len(w)])

\* POST /wishlist arrives with a body that wishlistAddSchema accepts.
WishlistAddBegin(p) ==
    \E u \in Users, pid \in ProductIds, v \in VariantIds :
        /\ Begin(p, [NoReq EXCEPT !.kind = "wishlistAdd", !.userId = u,
                    !.productId = pid, !.variantId = v])
        /\ Goto(p, "wishFindVariant", NoLoc)
        /\ UNCHANGED <<stock, price, carts, items, orders, txns, sessions, wishlists, catalog, accounts, now>>

\* product.findUnique and productVariant.findUnique: 404 unless the product
\* exists and the variant exists and belongs to it.
WishlistAddFindVariant(p) ==
    /\ pc[p] = "wishFindVariant"
    /\ IF req[p].productId \notin Products
       THEN Finish(p, 404, "product_not_found")
       ELSE IF req[p].variantId \notin Variants
               \/ ProductOf[req[p].variantId] # req[p].productId
       THEN Finish(p, 404, "variant_not_found")
       ELSE Goto(p, "wishFindItem", NoLoc)
    /\ UNCHANGED <<stock, price, carts, items, orders, txns, sessions, wishlists, catalog, accounts, now,
                   req, nreq>>

\* wishlist.findUnique({userId_variantId}): 409 when the pair has a row.
WishlistAddFindItem(p) ==
    /\ pc[p] = "wishFindItem"
    /\ IF WishlistRows(wishlists, req[p].userId, req[p].variantId) # {}
       THEN Finish(p, 409, "already_in_wishlist")
       ELSE Goto(p, "wishCreate", NoLoc)
    /\ UNCHANGED <<stock, price, carts, items, orders, txns, sessions, wishlists, catalog, accounts, now,
                   req, nreq>>

\* wishlist.create, answered 201; the unique index rejects a second row of the
\* pair with P2002, which the catch block answers with 500.
WishlistAddCreate(p) ==
    /\ pc[p] = "wishCreate"
    /\ IF WishlistPairTaken(wishlists, req[p].userId, req[p].variantId)
       THEN Finish(p, 500, "P2002") /\ UNCHANGED wishlists
       ELSE /\ wishlists' = Append(wishlists, [userId |-> req[p].userId,
                                               productId |-> req[p].productId,
                                               variantId |-> req[p].variantId])
            /\ Finish(p, 201, "added")
    /\ UNCHANGED <<stock, price, carts, items, orders, txns, sessions, catalog, accounts, now,
                   req, nreq>>

\* DELETE /wishlist/:variantId arrives.
WishlistRemoveBegin(p) ==
    \E u \in Users, v \in Variants :
        /\ Begin(p, [NoReq EXCEPT !.kind = "wishlistRemove", !.userId = u,
                    !.variantId = v])
        /\ Goto(p, "wishRemFind", NoLoc)
        /\ UNCHANGED <<stock, price, carts, items, orders, txns, sessions, wishlists, catalog, accounts, now>>

\* wishlist.findUnique of the DELETE route: 404 when the pair has no row.
WishlistRemoveFind(p) ==
    /\ pc[p] = "wishRemFind"
    /\ IF WishlistRows(wishlists, req[p].userId, req[p].variantId) = {}
       THEN Finish(p, 404, "not_in_wishlist")
       ELSE Goto(p, "wishRemDelete", NoLoc)
    /\ UNCHANGED <<stock, price, carts, items, orders, txns, sessions, wishlists, catalog, accounts, now,
                   req, nreq>>

\* wishlist.delete({userId_variantId}), answered 204; a row that is gone
\* (P2025) is answered 500.
WishlistRemoveDelete(p) ==
    LET rows == WishlistRows(wishlists, req[p].userId, req[p].variantId)
    IN  /\ pc[p] = "wishRemDelete"
        /\ IF rows = {}
           THEN Finish(p, 500, "P2025") /\ UNCHANGED wishlists
           ELSE /\ wishlists' = WithoutRows(wishlists, rows)
                /\ Finish(p, 204, "removed")
        /\ UNCHANGED <<stock, price, carts, items, orders, txns, sessions, catalog, accounts, now,
                   req, nreq>>

\* ------------------------------------------------- authorization
\* requireAdmin: the caller is authenticated and is an ADMIN or the OWNER.
requireAdmin(a) == accounts[a].exists /\ accounts[a].role \in {"ADMIN", "OWNER"}

\* requireOwner: the caller is authenticated and is the OWNER.
requireOwner(a) == accounts[a].exists /\ accounts[a].role = "OWNER"

\* ------------------------- routes/product.js, routes/productVariant.js
\* The prices an administrator gives a product.
NewPrices == {500}

\* order_line_items_variant_id_fkey, ON DELETE RESTRICT: a line item of some
\* Order references variant v.
VariantReferenced(os, v) == \E i \in 1..Len(os) : os[i].lines[v].quantity > 0

\* cart_items_variant_id_fkey and cart_items_product_id_fkey, ON DELETE
\* CASCADE: the cart items left once the variants in gone and the products in
\* dead have been deleted.
CascadeItems(its, gone, dead) ==
    [c \in Carts |-> [v \in Variants |->
        IF v \in gone \/ its[c][v].productId \in dead THEN NoItem ELSE its[c][v]]]

\* wishlists_variant_id_fkey and wishlists_product_id_fkey, ON DELETE CASCADE.
CascadeWishlists(w, gone, dead) ==
    WithoutRows(w, {i \in 1..Len(w) : w[i].variantId \in gone \/ w[i].productId \in dead})

\* order_line_items_product_id_fkey, ON DELETE SET NULL: the line items of the
\* deleted products lose their product_id.
SetNullLines(os, dead) ==
    [i \in 1..Len(os) |->
        [os[i] EXCEPT !.lines = [v \in Variants |->
            IF os[i].lines[v].quantity > 0 /\ os[i].lines[v].productId \in dead
            THEN [os[i].lines[v] EXCEPT !.productId = 0]
            ELSE os[i].lines[v]]]]

\* PUT /products/:id by an administrator: product.update of the price; a
\* product without a row is answered 404 (P2025).
ProductUpdate ==
    /\ \E a \in AccountIds : requireAdmin(a)
    /\ \E pid \in Products, newPrice \in NewPrices :
        /\ catalog.products[pid].exists
        /\ catalog.products[pid].price # newPrice
        /\ catalog' = [catalog EXCEPT !.products[pid].price = newPrice]
        /\ UNCHANGED <<stock, price, carts, items, orders, txns, sessions, wishlists,
                       accounts, now, pc, req, loc, resp, outcome, nreq>>

\* DELETE /products/:id by an administrator, one transaction:
\* productVariant.deleteMany of the product's variants, which a line item
\* referencing one of them blocks (the transaction rolls back, 500), then
\* product.delete with its cascades and SET NULL.
ProductDelete ==
    /\ \E a \in AccountIds : requireAdmin(a)
    /\ \E pid \in Products :
        LET gone == {v \in Variants : catalog.variants[v].exists /\ ProductOf[v] = pid}
        IN  /\ catalog.products[pid].exists
            /\ ~\E v \in gone : VariantReferenced(orders, v)
            /\ catalog' = [catalog EXCEPT
                              !.products[pid].exists = FALSE,
                              !.variants = [v \in Variants |->
                                              IF v \in gone THEN [exists |-> FALSE] ELSE @[v]]]
            /\ items' = CascadeItems(items, gone, {pid})
            /\ wishlists' = CascadeWishlists(wishlists, gone, {pid})
            /\ orders' = SetNullLines(orders, {pid})
            /\ UNCHANGED <<stock, price, carts, txns, sessions, accounts, now,
                           pc, req, loc, resp, outcome, nreq>>

\* PUT /variants/:id by an administrator: productVariant.update of the stock.
VariantUpdate ==
    /\ \E a \in AccountIds : requireAdmin(a)
    /\ \E v \in Variants, newStock \in {0, MaxStock} :
        /\ catalog.variants[v].exists
        /\ stock[v] # newStock
        /\ stock' = [stock EXCEPT ![v] = newStock]
        /\ UNCHANGED <<price, carts, items, orders, txns, sessions, wishlists, catalog,
                       accounts, now, pc, req, loc, resp, outcome, nreq>>

\* DELETE /variants/:id by an administrator: productVariant.delete, answered
\* 409 when a line item references the variant (P2003), else deleting the
\* variant with the cart items and wishlist rows that reference it.
VariantDelete ==
    /\ \E a \in AccountIds : requireAdmin(a)
    /\ \E v \in Variants :
        /\ catalog.variants[v].exists
        /\ ~VariantReferenced(orders, v)
        /\ catalog' = [catalog EXCEPT !.variants[v].exists = FALSE]
        /\ items' = CascadeItems(items, {v}, {})
        /\ wishlists' = CascadeWishlists(wishlists, {v}, {})
        /\ UNCHANGED <<stock, price, carts, orders, txns, sessions, accounts, now,
                       pc, req, loc, resp, outcome, nreq>>

\* --------------------------------------------------- routes/admin.js
OrderStatus == {"pending", "processing", "shipped", "delivered", "cancelled"}

\* PUT /admin/orders/:id/status by an administrator: order.findUnique (404
\* without the row), then order.update with any status that
\* orderStatusUpdateSchema accepts.
UpdateOrderStatus ==
    /\ \E a \in AccountIds : requireAdmin(a)
    /\ \E i \in 1..Len(orders), status \in OrderStatus :
        /\ orders[i].status # status
        /\ orders' = [orders EXCEPT ![i].status = status]
        /\ UNCHANGED <<stock, price, carts, items, txns, sessions, wishlists, catalog,
                       accounts, now, pc, req, loc, resp, outcome, nreq>>

\* --------------------------------------- routes/user.js, routes/admin.js
\* The id that the SERIAL column gives the next user row.
FreeAccountIds == {a \in AccountIds : ~accounts[a].exists}

\* POST /users/register, which needs no authentication: userRegisterSchema
\* accepts a role of USER, OWNER or ADMIN (USER when the body has none) and
\* user.create stores it.
Register ==
    \E role \in Roles :
        /\ FreeAccountIds # {}
        /\ LET a == CHOOSE x \in FreeAccountIds : \A y \in FreeAccountIds : x <= y
           IN  accounts' = [accounts EXCEPT ![a] = [exists |-> TRUE, role |-> role]]
        /\ UNCHANGED <<stock, price, carts, items, orders, txns, sessions, wishlists, catalog,
                       now, pc, req, loc, resp, outcome, nreq>>

\* PUT /admin/users/:id/role behind requireOwner: 400 for the caller's own id
\* and for taking OWNER away, 404 without the user, else user.update of the
\* role.
UpdateUserRole ==
    \E caller \in AccountIds, userId \in AccountIds, role \in Roles :
        /\ requireOwner(caller)
        /\ userId # caller
        /\ accounts[userId].exists
        /\ ~(accounts[userId].role = "OWNER" /\ role # "OWNER")
        /\ accounts[userId].role # role
        /\ accounts' = [accounts EXCEPT ![userId].role = role]
        /\ UNCHANGED <<stock, price, carts, items, orders, txns, sessions, wishlists, catalog,
                       now, pc, req, loc, resp, outcome, nreq>>

\* ------------------------------------------------------ specifications
InitProcs ==
    /\ pc = [p \in Procs |-> "idle"]
    /\ req = [p \in Procs |-> NoReq]
    /\ loc = [p \in Procs |-> NoLoc]
    /\ resp = [p \in Procs |-> 0]
    /\ outcome = [p \in Procs |-> "none"]
    /\ nreq = 0

\* A cart as POST /cart/items leaves it: each item priced at the variant's
\* price, the total their sum.
CartItemsOf(q) ==
    [v \in Variants |-> IF q[v] > 0 THEN [quantity |-> q[v], itemPrice |-> CatalogPrice[v],
                                          productId |-> ProductOf[v]]
                                    ELSE NoItem]

\* Every user has paid a checkout session for an ACTIVE cart that holds q
\* units of variant 1; the first cart may hold variant 2 as well, which is
\* either sold out or fully stocked.
SettleInit ==
    /\ InitProcs
    /\ stock \in [Variants -> 0..MaxStock]
    /\ stock[2] \in {0, MaxStock}
    /\ price = CatalogPrice
    /\ \E q \in 1..MaxQty, q2 \in {0, MaxQty} :
         items = [c \in Carts |->
                    CartItemsOf([v \in Variants |->
                                   IF v = 1 THEN q ELSE IF c = 1 THEN q2 ELSE 0])]
    /\ carts = [c \in Carts |-> [NewCart EXCEPT !.userId = c,
                                             !.totalPrice = ExactTotal(items[c])]]
    /\ orders = <<>>
    /\ txns = {}
    /\ sessions = {[stripeId |-> i, userId |-> i, cartId |-> i,
                     amount |-> AmountCharged(lineItems(items[i], price))] : i \in Payments}
    /\ wishlists = <<>>
    /\ catalog = FullCatalog
    /\ accounts = InitAccounts
    /\ now = 0

SettleNext ==
    \/ \E p \in Procs : handleStripeWebhook(p)
    \/ \E p \in Procs : handleCheckoutSessionCompleted(p)
    \/ \E p \in Procs : SettleTransaction(p)
    \/ Tick

SpecSettle == SettleInit /\ [][SettleNext]_vars

\* Every user has either no cart yet or an ACTIVE cart, possibly empty.
CheckoutInit ==
    /\ InitProcs
    /\ stock = [v \in Variants |-> MaxStock]
    /\ price = CatalogPrice
    /\ \E has \in [Carts -> BOOLEAN], q \in [Carts -> [Variants -> 0..MaxQty]] :
         /\ \A c \in Carts : ~has[c] => \A v \in Variants : q[c][v] = 0
         /\ items = [c \in Carts |-> CartItemsOf(q[c])]
         /\ carts = [c \in Carts |->
                       IF has[c] THEN [NewCart EXCEPT !.userId = c,
                                                      !.totalPrice = ExactTotal(items[c])]
                                 ELSE NoCart]
    /\ orders = <<>>
    /\ txns = {}
    /\ sessions = {}
    /\ wishlists = <<>>
    /\ catalog = FullCatalog
    /\ accounts = InitAccounts
    /\ now = 0

CheckoutNext ==
    \/ \E p \in Procs : CheckoutBegin(p)
    \/ \E p \in Procs : CheckoutFind(p)
    \/ \E p \in Procs : CheckoutWrite(p)

SpecCheckout == CheckoutInit /\ [][CheckoutNext]_vars

\* The store before any cart exists: the catalog only.
CartInit ==
    /\ InitProcs
    /\ stock = [v \in Variants |-> MaxStock]
    /\ price = CatalogPrice
    /\ carts = [c \in Carts |-> NoCart]
    /\ items = [c \in Carts |-> EmptyItems]
    /\ orders = <<>>
    /\ txns = {}
    /\ sessions = {}
    /\ wishlists = <<>>
    /\ catalog = FullCatalog
    /\ accounts = InitAccounts
    /\ now = 0

\* Cart requests one after the other: a request arrives when none is running.
CartNext ==
    \/ \E p \in Procs : AllIdle /\ AddItemBegin(p)
    \/ \E p \in Procs : AddItemFindCart(p)
    \/ \E p \in Procs : AddItemCreateCart(p)
    \/ \E p \in Procs : AddItemFindItem(p)
    \/ \E p \in Procs : AddItemWrite(p)
    \/ \E p \in Procs : AllIdle /\ UpdateItemBegin(p)
    \/ \E p \in Procs : UpdateItemFind(p)
    \/ \E p \in Procs : UpdateItemWrite(p)
    \/ \E p \in Procs : AllIdle /\ RemoveItemBegin(p)
    \/ \E p \in Procs : RemoveItemFind(p)
    \/ \E p \in Procs : RemoveItemDelete(p)
    \/ \E p \in Procs : RecalcFindItems(p)
    \/ \E p \in Procs : RecalcUpdateTotal(p)

SpecCart == CartInit /\ [][CartNext]_vars


\* The shop as its users drive it: GET /cart, POST /cart/items and POST /orders
\* in any interleaving, from a store without carts.
ShopNext ==
    \/ \E p \in Procs : GetCartBegin(p)
    \/ \E p \in Procs : GetCartFind(p)
    \/ \E p \in Procs : GetCartCreate(p)
    \/ \E p \in Procs : GetCartUpdateTotal(p)
    \/ \E p \in Procs : AddItemOfCatalog(p)
    \/ \E p \in Procs : AddItemFindCart(p)
    \/ \E p \in Procs : AddItemCreateCart(p)
    \/ \E p \in Procs : AddItemFindItem(p)
    \/ \E p \in Procs : AddItemWrite(p)
    \/ \E p \in Procs : RecalcFindItems(p)
    \/ \E p \in Procs : RecalcUpdateTotal(p)
    \/ \E p \in Procs : CheckoutBegin(p)
    \/ \E p \in Procs : CheckoutFind(p)
    \/ \E p \in Procs : CheckoutWrite(p)

SpecShop == CartInit /\ [][ShopNext]_vars

\* The payment flow from the cart to the settled Order: a user with a filled
\* cart, a user with an empty one, sessions opened by createCheckoutSession and
\* settled by the webhook.
SessionInit ==
    /\ InitProcs
    /\ stock \in [Variants -> 0..MaxStock]
    /\ price = CatalogPrice
    /\ \E q \in [Variants -> 0..MaxQty] :
         /\ q[1] > 0
         /\ items = [c \in Carts |-> IF c = 1 THEN CartItemsOf(q) ELSE EmptyItems]
    /\ carts = [c \in Carts |-> [NewCart EXCEPT !.userId = c,
                                             !.totalPrice = ExactTotal(items[c])]]
    /\ orders = <<>>
    /\ txns = {}
    /\ sessions = {}
    /\ wishlists = <<>>
    /\ catalog = FullCatalog
    /\ accounts = InitAccounts
    /\ now = 0

SessionNext ==
    \/ \E p \in Procs : CreateSessionBegin(p)
    \/ \E p \in Procs : CreateSessionFind(p)
    \/ \E p \in Procs : CreateSessionGateway(p)
    \/ SettleNext

SpecSession == SessionInit /\ [][SessionNext]_vars

\* Wishlist requests in any interleaving, from the store without carts and
\* without wishlist rows.
WishlistNext ==
    \/ \E p \in Procs : WishlistAddBegin(p)
    \/ \E p \in Procs : WishlistAddFindVariant(p)
    \/ \E p \in Procs : WishlistAddFindItem(p)
    \/ \E p \in Procs : WishlistAddCreate(p)
    \/ \E p \in Procs : WishlistRemoveBegin(p)
    \/ \E p \in Procs : WishlistRemoveFind(p)
    \/ \E p \in Procs : WishlistRemoveDelete(p)

SpecWishlist == CartInit /\ [][WishlistNext]_vars

\* POST /cart/items requests of the storefront in any interleaving, from a
\* store without carts.
AddItemNext ==
    \/ \E p \in Procs : AddItemOfCatalog(p)
    \/ \E p \in Procs : AddItemFindCart(p)
    \/ \E p \in Procs : AddItemCreateCart(p)
    \/ \E p \in Procs : AddItemFindItem(p)
    \/ \E p \in Procs : AddItemWrite(p)
    \/ \E p \in Procs : RecalcFindItems(p)
    \/ \E p \in Procs : RecalcUpdateTotal(p)

SpecAddItem == CartInit /\ [][AddItemNext]_vars

\* The shop and its back office, one request after the other: customers fill
\* carts, pay for them through the gateway and have them settled, and an
\* administrator edits and deletes products and variants.
CatalogNext ==
    \/ \E p \in Procs : AllIdle /\ AddItemOfProducts(p)
    \/ \E p \in Procs : AddItemFindCart(p)
    \/ \E p \in Procs : AddItemCreateCart(p)
    \/ \E p \in Procs : AddItemFindItem(p)
    \/ \E p \in Procs : AddItemWrite(p)
    \/ \E p \in Procs : RecalcFindItems(p)
    \/ \E p \in Procs : RecalcUpdateTotal(p)
    \/ \E p \in Procs : AllIdle /\ CreateSessionBegin(p)
    \/ \E p \in Procs : CreateSessionFind(p)
    \/ \E p \in Procs : CreateSessionGateway(p)
    \/ \E p \in Procs : AllIdle /\ handleStripeWebhook(p)
    \/ \E p \in Procs : handleCheckoutSessionCompleted(p)
    \/ \E p \in Procs : SettleTransaction(p)
    \/ AllIdle /\ ProductUpdate
    \/ AllIdle /\ ProductDelete
    \/ AllIdle /\ VariantUpdate
    \/ AllIdle /\ VariantDelete

SpecCatalog == CartInit /\ [][CatalogNext]_vars

\* The settlement pipeline and the back office: paid sessions are settled into
\* Orders and an administrator updates their status, one request after the
\* other.
OrdersNext ==
    \/ \E p \in Procs : AllIdle /\ handleStripeWebhook(p)
    \/ \E p \in Procs : handleCheckoutSessionCompleted(p)
    \/ \E p \in Procs : SettleTransaction(p)
    \/ AllIdle /\ UpdateOrderStatus

SpecOrders == SettleInit /\ [][OrdersNext]_vars

\* Every user has an ACTIVE cart; the cart of user 1 holds some units of
\* variant 1, the cart of user 2 is empty, and every variant is in stock.
PayInit ==
    /\ InitProcs
    /\ stock = [v \in Variants |-> MaxStock]
    /\ price = CatalogPrice
    /\ \E q \in 1..MaxQty :
         items = [c \in Carts |->
                    CartItemsOf([v \in Variants |-> IF c = 1 /\ v = 1 THEN q ELSE 0])]
    /\ carts = [c \in Carts |-> [NewCart EXCEPT !.userId = c,
                                             !.totalPrice = ExactTotal(items[c])]]
    /\ orders = <<>>
    /\ txns = {}
    /\ sessions = {}
    /\ wishlists = <<>>
    /\ catalog = FullCatalog
    /\ accounts = InitAccounts
    /\ now = 0

\* Paying for a cart while it is in use: checkout sessions, their settlement
\* by the webhook, POST /cart/items and the direct checkout, in any
\* interleaving.
PayNext ==
    \/ \E p \in Procs : CreateSessionBegin(p)
    \/ \E p \in Procs : CreateSessionFind(p)
    \/ \E p \in Procs : CreateSessionGateway(p)
    \/ \E p \in Procs : handleStripeWebhook(p)
    \/ \E p \in Procs : handleCheckoutSessionCompleted(p)
    \/ \E p \in Procs : SettleTransaction(p)
    \/ \E p \in Procs : AddItemOfCatalog(p)
    \/ \E p \in Procs : AddItemFindCart(p)
    \/ \E p \in Procs : AddItemCreateCart(p)
    \/ \E p \in Procs : AddItemFindItem(p)
    \/ \E p \in Procs : AddItemWrite(p)
    \/ \E p \in Procs : RecalcFindItems(p)
    \/ \E p \in Procs : RecalcUpdateTotal(p)
    \/ \E p \in Procs : CheckoutBegin(p)
    \/ \E p \in Procs : CheckoutFind(p)
    \/ \E p \in Procs : CheckoutWrite(p)

SpecPay == PayInit /\ [][PayNext]_vars

\* The accounts of the shop: anyone registers, and the owner sets roles.
AccountsNext ==
    \/ Register
    \/ UpdateUserRole

SpecAccounts == CartInit /\ [][AccountsNext]_vars

\* ============================================================ properties
TxnsFor(id) == {t \in txns : t.stripeId = id}
OrdersFor(id) == {t.orderId : t \in TxnsFor(id)}
OrdersOfCart(c) == {i \in 1..Len(orders) : orders[i].cartId = c}
Served(p, kind) == pc[p] = "idle" /\ req[p].kind = kind
SettlementOrders == {i \in 1..Len(orders) : orders[i].status = "processing"}

\* C1: however often, one after the other or at once, the same authenticated
\* checkout.session.completed event is delivered, the store never holds more
\* than one Order and one OrderTransaction for its payment id, every settled
\* Order has its OrderTransaction, and from the delivery that settles on
\* there is exactly one of each.
C1_SettlementIdempotent ==
    /\ \A id \in Payments :
         /\ Cardinality(TxnsFor(id)) <= 1
         /\ Cardinality(OrdersFor(id)) = Cardinality(TxnsFor(id))
         /\ (\E p \in Procs : Served(p, "webhook") /\ req[p].stripeId = id
                              /\ outcome[p] = "settled")
              => Cardinality(OrdersFor(id)) = 1 /\ Cardinality(TxnsFor(id)) = 1
    /\ \A i \in SettlementOrders : \E t \in txns : t.orderId = i
    /\ Cardinality(SettlementOrders) = Cardinality(txns)

\* Two deliveries of payment 1 have ended, the first settled and the second
\* was rejected by the unique index; one Order and one OrderTransaction exist.
C1_Witness ==
    /\ Served(1, "webhook") /\ Served(2, "webhook")
    /\ req[1].stripeId = 1 /\ req[2].stripeId = 1
    /\ outcome[1] = "settled" /\ outcome[2] = "P2002"
    /\ Cardinality(OrdersFor(1)) = 1 /\ Cardinality(TxnsFor(1)) = 1
    /\ Len(orders) = 1

\* C2: the stock of a variant never becomes negative, so that of the
\* settlements buying q units of a variant with stock S at most floor(S/q)
\* commit an Order.
SoldUnits(v) == SumOver([i \in 1..Len(orders) |-> orders[i].lines[v].quantity],
                        1..Len(orders))
\* Only settlements change the stock, each by the units it sells.
InitialStock(v) == stock[v] + SoldUnits(v)
C2_NoOverselling ==
    \A v \in Variants :
        /\ stock[v] >= 0
        /\ SoldUnits(v) <= InitialStock(v)

\* C3: a direct checkout whose transaction fails at any statement leaves no
\* Order, no order item, no change of the cart and no deleted cart item.
C3_CheckoutAtomic ==
    [][\A p \in Procs :
         (pc[p] = "createOrder" /\ pc'[p] = "idle" /\ resp'[p] # 201)
            => UNCHANGED <<orders, carts, items, stock, txns>>]_vars

\* A checkout was answered 500 and its cart is still ACTIVE with its items.
C3_Witness ==
    \E p \in Procs :
        /\ Served(p, "checkout") /\ resp[p] = 500 /\ outcome[p] = "tx_error"
        /\ orders = <<>>
        /\ \E c \in ActiveCarts(carts, req[p].userId) : ItemRows(items[c]) # {}

\* C4: a settlement transaction either commits all of its effects (the stock
\* of every purchased variant decremented, the Order with its line items, its
\* OrderTransaction, the cart cleared) or none of them.
C4_SettlementAtomic ==
    [][\A p \in Procs :
         (pc[p] = "settle" /\ pc'[p] = "idle") =>
            \/ /\ outcome'[p] = "settled"
               /\ stock' = [v \in Variants |-> stock[v] - loc[p].lines[v].quantity]
               /\ Len(orders') = Len(orders) + 1
               /\ orders'[Len(orders')].lines = loc[p].lines
               /\ \E t \in txns' : /\ txns' = txns \cup {t}
                                   /\ t \notin txns
                                   /\ t.orderId = Len(orders')
                                   /\ t.stripeId = req[p].stripeId
               /\ items'[loc[p].cartId] = EmptyItems
            \/ /\ outcome'[p] # "settled"
               /\ UNCHANGED <<stock, orders, txns, items, carts>>]_vars

\* A settlement transaction failed: no Order, no OrderTransaction, and the
\* cart still holds its items.
C4_Witness ==
    \E p \in Procs :
        /\ Served(p, "webhook") /\ outcome[p] = "tx_error"
        /\ orders = <<>> /\ txns = {}
        /\ ItemRows(items[req[p].cartId]) # {}

\* C5: a cart is converted into an Order at most once, also when two direct
\* checkouts of the cart run concurrently.
C5_NoDoubleConversion ==
    \A c \in Carts : Cardinality(OrdersOfCart(c)) <= 1

\* C6: once the addItem, updateItemQuantity and removeItem requests have
\* completed, the stored totalPrice of every cart is the exact sum of
\* itemPrice x quantity over its items.
C6_TotalPriceExact ==
    AllIdle => \A c \in Carts : carts[c].exists
                                   => carts[c].totalPrice = ExactTotal(items[c])

\* After an add, a second add and a removal the cart still holds an item and
\* its total is that item's itemPrice x quantity.
C6_Witness ==
    \E p \in Procs, c \in Carts :
        /\ AllIdle /\ req[p].kind = "removeItem" /\ resp[p] = 204
        /\ ItemRows(items[c]) # {}
        /\ carts[c].totalPrice = ExactTotal(items[c])
        /\ carts[c].totalPrice > 0

\* C7: a direct checkout that finds no ACTIVE cart of the user, or finds it
\* empty, is answered with a 4xx status and changes nothing in the store.
C7_EmptyCheckoutRejected ==
    [][\A p \in Procs :
         (/\ pc[p] = "findActiveCart" /\ pc'[p] # "findActiveCart"
          /\ \A c \in ActiveCarts(carts, req[p].userId) :
                \A v \in Variants : items[c][v].quantity = 0)
            => /\ pc'[p] = "idle"
               /\ resp'[p] \in 400..499
               /\ UNCHANGED <<orders, carts, items, stock, txns>>]_vars

\* A user whose cart was completed by a first checkout checks out again and
\* is answered 400.
C7_Witness ==
    \E p \in Procs :
        /\ Served(p, "checkout") /\ resp[p] = 400 /\ outcome[p] = "no_active_cart"
        /\ \E c \in CartsOfUser(carts, req[p].userId) :
              /\ carts[c].cartStatus = "COMPLETED"
              /\ Cardinality(OrdersOfCart(c)) = 1

\* C8: an event whose signature was not made with the endpoint's secret is
\* answered 400 at once, whatever its type and payload, and neither it nor
\* any later step on its behalf touches the store.
C8_InvalidSignatureRejected ==
    [][\A p \in Procs :
         (req'[p].kind = "webhook" /\ req'[p].sig # endpointSecret)
            => /\ pc'[p] = "idle"
               /\ resp'[p] = 400
               /\ (pc[p] # "idle" \/ req'[p] # req[p] \/ nreq' # nreq)
                     => UNCHANGED <<stock, carts, items, orders, txns>>]_vars

\* A forged checkout.session.completed event was answered 400.
C8_Witness ==
    \E p \in Procs :
        /\ Served(p, "webhook") /\ req[p].sig = "forged"
        /\ req[p].type = "checkout.session.completed"
        /\ resp[p] = 400

\* C9: when the cart read by the settlement holds an item whose variant has
\* less stock than the item's quantity, the settlement ends there: no Order,
\* no OrderTransaction, no stock change of any variant, cart items kept.
C9_InsufficientStockAborts ==
    [][\A p \in Procs :
         (/\ pc[p] = "findCart" /\ pc'[p] # "findCart"
          /\ \E v \in Variants : /\ items[req[p].cartId][v].quantity > 0
                                 /\ stock[v] < items[req[p].cartId][v].quantity)
            => /\ pc'[p] = "idle"
               /\ UNCHANGED <<stock, carts, items, orders, txns>>]_vars

\* A settlement was aborted for a cart of two items, one of them in stock.
C9_Witness ==
    \E p \in Procs :
        /\ Served(p, "webhook") /\ outcome[p] = "overselling"
        /\ orders = <<>> /\ txns = {}
        /\ LET its == items[req[p].cartId]
           IN  /\ its[1].quantity > 0 /\ stock[1] >= its[1].quantity
               /\ its[2].quantity > 0 /\ stock[2] < its[2].quantity

\* C10: an authenticated, dispatched event is answered with success unless
\* its processing raised an error, and then with an error status.
ProcessingFailed(p) == outcome[p] \in {"tx_error", "P2002", "error"}
C10_ErrorStatusOnFailure ==
    \A p \in Procs :
        (Served(p, "webhook") /\ req[p].sig = endpointSecret)
            => IF ProcessingFailed(p) THEN resp[p] >= 500 ELSE resp[p] = 200

\* A getOrCreateActiveCart request (GET /cart or POST /cart/items) in slot p
\* is at its cart.create.
AtCartCreate(p) == pc[p] \in {"getCreateCart", "addCreateCart"}

\* C11: in every reachable state, under any interleaving of GET /cart,
\* POST /cart/items and checkout requests, each user has at most one cart
\* with status ACTIVE.
C11_OneActiveCartPerUser ==
    \A u \in Users : Cardinality(ActiveCarts(carts, u)) <= 1

\* Two requests of one user raced to create the cart: one of them lost on the
\* unique index and the user has one ACTIVE cart.
C11_Witness ==
    \E u \in Users :
        /\ \A p \in Procs : pc[p] = "idle" /\ req[p].userId = u
        /\ \E p \in Procs : outcome[p] = "P2002_user_id"
        /\ Cardinality(ActiveCarts(carts, u)) = 1
        /\ Cardinality(CartsOfUser(carts, u)) = 1

\* C12: a getOrCreateActiveCart that finds no ACTIVE cart and then loses the
\* creation race to a concurrent request of the same user tolerates the
\* conflict: it is not answered with an error.
C12_CreationRaceTolerated ==
    [][\A p \in Procs :
         (AtCartCreate(p) /\ pc'[p] # pc[p] /\ ActiveCarts(carts, req[p].userId) # {})
            => ~(pc'[p] = "idle" /\ resp'[p] >= 400)]_vars

\* C13: once the status of a cart has left ACTIVE, no step sets it back to
\* ACTIVE and no step converts the cart into an Order again.
C13_CheckedOutOnce ==
    [][\A c \in Carts :
         (carts[c].exists /\ carts[c].cartStatus # "ACTIVE")
            => /\ carts'[c].cartStatus # "ACTIVE"
               /\ {i \in 1..Len(orders') : orders'[i].cartId = c} = OrdersOfCart(c)]_vars

\* C14: the getOrCreateActiveCart of a user whose cart was completed by a
\* direct checkout creates a new ACTIVE cart with totalPrice 0 and no items,
\* and the completed cart stays as it is.
C14_NewCartAfterCheckout ==
    [][\A p \in Procs :
         (/\ AtCartCreate(p) /\ pc'[p] # pc[p]
          /\ CartsOfUser(carts, req[p].userId) # {}
          /\ \A c \in CartsOfUser(carts, req[p].userId) : carts[c].cartStatus = "COMPLETED")
            => /\ ~(pc'[p] = "idle" /\ resp'[p] >= 400)
               /\ \E c \in Carts :
                     /\ ~carts[c].exists
                     /\ carts'[c] = [NewCart EXCEPT !.userId = req[p].userId]
                     /\ items'[c] = EmptyItems
               /\ \A c \in CartsOfUser(carts, req[p].userId) : carts'[c] = carts[c]]_vars

\* C15: a direct checkout that succeeds on an ACTIVE cart with item set I
\* creates one Order with status PENDING and total the sum of itemPrice x
\* quantity over I, with one order item per cart item carrying its product,
\* variant, quantity and itemPrice; the cart becomes COMPLETED, is linked to
\* the Order and has no items.
C15_CheckoutResult ==
    [][\A p \in Procs :
         (/\ pc[p] = "createOrder" /\ pc'[p] = "idle" /\ resp'[p] = 201
          /\ carts[loc[p].cartId].cartStatus = "ACTIVE")
            => LET c == loc[p].cartId
                   n == Len(orders')
               IN  /\ n = Len(orders) + 1
                   /\ SubSeq(orders', 1, Len(orders)) = orders
                   /\ orders'[n].status = "PENDING"
                   /\ orders'[n].userId = req[p].userId
                   /\ orders'[n].total = ExactTotal(items[c])
                   /\ \A v \in Variants :
                         /\ orders'[n].lines[v].quantity = items[c][v].quantity
                         /\ orders'[n].lines[v].price = items[c][v].itemPrice
                         /\ orders'[n].lines[v].productId = items[c][v].productId
                   /\ carts'[c].cartStatus = "COMPLETED"
                   /\ carts'[c].orderId = n
                   /\ items'[c] = EmptyItems]_vars

\* A cart of two items was checked out: the Order totals both items and the
\* cart is COMPLETED and empty.
C15_Witness ==
    \E p \in Procs, c \in Carts :
        /\ Served(p, "checkout") /\ resp[p] = 201
        /\ Len(orders) = 1
        /\ orders[1].cartId = c
        /\ \A v \in Variants : orders[1].lines[v].quantity > 0
        /\ \E v \in Variants : orders[1].lines[v].quantity > 1
        /\ orders[1].total = SumOver([v \in Variants |-> orders[1].lines[v].price
                                                          * orders[1].lines[v].quantity],
                                     Variants)
        /\ carts[c].cartStatus = "COMPLETED" /\ carts[c].orderId = 1
        /\ items[c] = EmptyItems

\* C17: a settlement that succeeds on a cart with item set I decrements the
\* stock of each purchased variant by the item's quantity, creates one Order
\* (processing, paid, unfulfilled) with one line item per cart item holding
\* the unit price read with the cart, the quantity and their product as line
\* total, records one OrderTransaction with the payment id and the order
\* amount, and leaves the cart row as it was, with no items.
C17_SettlementResult ==
    [][\A p \in Procs :
         (pc[p] = "settle" /\ pc'[p] = "idle" /\ outcome'[p] = "settled")
            => LET c == req[p].cartId
                   n == Len(orders')
               IN  /\ n = Len(orders) + 1
                   /\ SubSeq(orders', 1, Len(orders)) = orders
                   /\ \A v \in Variants : stock'[v] = stock[v] - items[c][v].quantity
                   /\ orders'[n].status = "processing"
                   /\ orders'[n].financialStatus = "paid"
                   /\ orders'[n].fulfillmentStatus = "unfulfilled"
                   /\ \A v \in Variants :
                         /\ orders'[n].lines[v].quantity = items[c][v].quantity
                         /\ orders'[n].lines[v].productId = items[c][v].productId
                         /\ orders'[n].lines[v].price =
                               (IF items[c][v].quantity > 0 THEN price[v] ELSE 0)
                         /\ orders'[n].lines[v].total = price[v] * items[c][v].quantity
                   /\ orders'[n].total = SumOver([v \in Variants |->
                                                    price[v] * items[c][v].quantity], Variants)
                   /\ \E t \in txns' :
                         /\ txns' = txns \cup {t} /\ t \notin txns
                         /\ t.stripeId = req[p].stripeId
                         /\ t.orderId = n
                         /\ t.amount = orders'[n].total
                   /\ carts'[c] = carts[c]
                   /\ items'[c] = EmptyItems]_vars

\* A cart of two items was settled: two line items, each with its line total,
\* one OrderTransaction of the order amount, the cart kept and emptied.
C17_Witness ==
    \E p \in Procs :
        /\ Served(p, "webhook") /\ outcome[p] = "settled"
        /\ Len(orders) = 1
        /\ \A v \in Variants : orders[1].lines[v].quantity > 0
        /\ \E v \in Variants : orders[1].lines[v].total > orders[1].lines[v].price
        /\ \E t \in txns : t.stripeId = req[p].stripeId /\ t.amount = orders[1].total
        /\ carts[req[p].cartId].exists
        /\ items[req[p].cartId] = EmptyItems

\* The request in slot p names a variant that no row has, or one that belongs
\* to another product than the one it states.
UnknownVariant(r) ==
    r.variantId \notin Variants \/ ProductOf[r.variantId] # r.productId

\* C18: an addItem whose variantId does not exist, or exists but does not
\* belong to the stated productId, is answered 404, and no cart holds an item
\* whose product is not the product of its variant.
C18_UnknownVariantNotFound ==
    /\ \A p \in Procs :
          (Served(p, "addItem") /\ UnknownVariant(req[p])) => resp[p] = 404
    /\ \A c \in Carts, v \in Variants :
          items[c][v].quantity > 0 => items[c][v].productId = ProductOf[v]

SessionAllowed(u, c) ==
    /\ carts[c].exists /\ carts[c].userId = u
    /\ ItemRows(items[c]) # {}
    /\ \A v \in ItemRows(items[c]) : stock[v] >= items[c][v].quantity

\* C16: createCheckoutSession goes on to the gateway only if, when it reads
\* the cart, the cart exists, belongs to the caller, is not empty and every
\* item has stock for its quantity; otherwise it answers with a 4xx error,
\* naming the product of an offending item when the stock is short, without
\* contacting the gateway; and no step of it changes the local store.
C16_SessionPreconditions ==
    [][\A p \in Procs :
         /\ (pc[p] = "sessFindCart" /\ pc'[p] # pc[p])
               => IF SessionAllowed(req[p].userId, req[p].cartId)
                  THEN pc'[p] = "sessCreate"
                  ELSE /\ pc'[p] = "idle" /\ resp'[p] \in 400..499
                       /\ (/\ carts[req[p].cartId].exists
                            /\ carts[req[p].cartId].userId = req[p].userId
                            /\ ItemRows(items[req[p].cartId]) # {})
                             => \E v \in ItemRows(items[req[p].cartId]) :
                                   /\ stock[v] < items[req[p].cartId][v].quantity
                                   /\ outcome'[p] =
                                        StockMessage[items[req[p].cartId][v].productId]
         /\ (pc[p] \in {"sessFindCart", "sessCreate"} /\ pc'[p] # pc[p])
               => UNCHANGED <<stock, carts, items, orders, txns>>
         /\ (pc[p] # "sessCreate" /\ pc'[p] # pc[p]) => sessions' = sessions]_vars

\* A session was refused for a cart of two items of which the second is short
\* of stock, and no session exists.
C16_Witness ==
    \E p \in Procs :
        /\ Served(p, "createSession") /\ resp[p] = 400
        /\ outcome[p] = StockMessage[2]
        /\ stock[1] >= items[req[p].cartId][1].quantity
        /\ items[req[p].cartId][1].quantity > 0
        /\ stock[2] < items[req[p].cartId][2].quantity
        /\ sessions = {}

\* C20: the wishlist never holds more than one row for a (userId, variantId)
\* pair, and an add that finds the row of its pair is answered 409 and adds
\* nothing.
C20_WishlistPairUnique ==
    [][/\ \A u \in Users, v \in Variants :
            Cardinality({i \in 1..Len(wishlists') :
                           wishlists'[i].userId = u /\ wishlists'[i].variantId = v}) <= 1
       /\ \A p \in Procs :
            (/\ pc[p] = "wishFindItem" /\ pc'[p] # pc[p]
             /\ WishlistRows(wishlists, req[p].userId, req[p].variantId) # {})
               => /\ pc'[p] = "idle" /\ resp'[p] = 409
                  /\ wishlists' = wishlists]_vars

\* The same pair was added twice: the first add was answered 201, the second
\* 409, and the pair has one row.
C20_Witness ==
    /\ Served(1, "wishlistAdd") /\ Served(2, "wishlistAdd")
    /\ req[1].userId = req[2].userId /\ req[1].variantId = req[2].variantId
    /\ resp[1] = 201 /\ resp[2] = 409
    /\ Cardinality(WishlistRows(wishlists, req[1].userId, req[1].variantId)) = 1
    /\ Len(wishlists) = 1

\* The Prisma codes of a write that a unique index (P2002) or a foreign key
\* (P2003) rejected, as the handlers' outcomes record them.
ConstraintViolation(o) == o \in {"P2002", "P2002_user_id", "P2003"}

\* C21: a request whose write the store rejected with a uniqueness or
\* foreign-key violation (the loser of a concurrent cart creation, of a
\* concurrent insert of one variant into one cart, of a concurrent wishlist
\* add) is answered 400, 404 or 409, never 500.
C21_ConstraintViolationsTranslated ==
    \A p \in Procs :
        (/\ pc[p] = "idle"
         /\ req[p].kind \in {"getCart", "addItem", "wishlistAdd"}
         /\ ConstraintViolation(outcome[p]))
            => resp[p] \in {400, 404, 409}

\* C22: concurrent addItem requests on one cart act as if run one after the
\* other: the write of each of them adds its quantity to the quantity the
\* item has at that moment, so no increment is lost, and once all of them
\* have completed the stored totalPrice of the cart is the sum of itemPrice x
\* quantity over its items.
C22_AddItemSerialized ==
    [][\A p \in Procs :
         /\ (pc[p] = "addWriteItem" /\ pc'[p] = "findItems")
               => items'[loc[p].cartId][req[p].variantId].quantity
                     = items[loc[p].cartId][req[p].variantId].quantity + req[p].quantity
         /\ (pc[p] = "updateTotal" /\ \A q \in Procs : pc'[q] = "idle")
               => carts'[loc[p].cartId].totalPrice = ExactTotal(items'[loc[p].cartId])]_vars

\* C23: snapshots are frozen.  No step removes an Order or changes the
\* product, variant, quantity, unit price or line total of an existing order
\* line item, whatever is edited or deleted in the catalog afterwards; and
\* the itemPrice of an existing cart item changes only when an addItem of its
\* variant writes to it.
C23_SnapshotsFrozen ==
    [][/\ Len(orders') >= Len(orders)
       /\ \A i \in 1..Len(orders) : orders'[i].lines = orders[i].lines
       /\ \A c \in Carts, v \in Variants :
            (/\ items[c][v].quantity > 0 /\ items'[c][v].quantity > 0
             /\ items'[c][v].itemPrice # items[c][v].itemPrice)
               => \E p \in Procs : /\ pc[p] = "addWriteItem"
                                   /\ req[p].variantId = v
                                   /\ loc[p].cartId = c]_vars

\* The place of a status on the path pending, processing, shipped, delivered.
StatusRank(s) ==
    CASE s = "pending" -> 1 [] s = "processing" -> 2 [] s = "shipped" -> 3
      [] s = "delivered" -> 4 [] OTHER -> 5

\* C24: the status of an Order only moves forward along pending, processing,
\* shipped, delivered, or to cancelled: no step takes an Order back to an
\* earlier status or out of delivered or cancelled.
C24_OrderStatusForward ==
    [][\A i \in 1..Len(orders) :
         \/ orders'[i].status = orders[i].status
         \/ /\ orders[i].status \notin {"delivered", "cancelled"}
            /\ StatusRank(orders'[i].status) > StatusRank(orders[i].status)]_vars

\* C25: every Order, whichever pipeline created it, carries an orderNumber,
\* and no two Orders share one.
C25_OrderNumberUnique ==
    /\ \A i \in 1..Len(orders) : orders[i].orderNumber # <<>>
    /\ \A i, j \in 1..Len(orders) :
          i # j => orders[i].orderNumber # orders[j].orderNumber

\* C26: in every reachable state a cart whose status is not ACTIVE has no
\* items, also when an addItem that read the cart as ACTIVE writes after the
\* checkout that completed it.
C26_CompletedCartEmpty ==
    \A c \in Carts :
        (carts[c].exists /\ carts[c].cartStatus # "ACTIVE") => ItemRows(items[c]) = {}

\* C27: the total of the Order and the amount of the OrderTransaction that a
\* settlement records are the amount that the gateway charged for the
\* session, also when the cart has changed since the session was created.
C27_AmountMatchesCharge ==
    \A t \in txns, s \in sessions :
        s.stripeId = t.stripeId
           => t.amount = s.amount /\ orders[t.orderId].total = s.amount

\* C28: a settlement deletes no cart item that is not represented by a line
\* item of the Order it creates; an item added to the cart after the
\* settlement has read it is not removed.
C28_SettlementDeletesOnlyOrdered ==
    [][\A p \in Procs :
         (pc[p] = "settle" /\ pc'[p] = "idle")
            => \A v \in Variants :
                  (items[loc[p].cartId][v].quantity > 0
                   /\ items'[loc[p].cartId][v].quantity = 0)
                     => /\ Len(orders') = Len(orders) + 1
                        /\ orders'[Len(orders')].lines[v].quantity > 0]_vars

\* C29: no Order is ever committed without line items, and a settlement that
\* reads an empty cart (converted by a direct checkout, or emptied, since the
\* session was created) ends there, with no Order and no OrderTransaction.
C29_NoEmptyOrder ==
    [][/\ \A i \in 1..Len(orders') : LineRows(orders'[i].lines) # {}
       /\ \A p \in Procs :
            (/\ pc[p] = "findCart" /\ pc'[p] # "findCart"
             /\ ItemRows(items[req[p].cartId]) = {})
               => /\ pc'[p] = "idle"
                  /\ UNCHANGED <<orders, txns, stock>>]_vars

\* A session was paid for a cart that a direct checkout then converted; its
\* settlement found the cart empty and left no Order of its own and no
\* OrderTransaction.
C29_Witness ==
    \E p \in Procs :
        /\ Served(p, "webhook") /\ outcome[p] = "error"
        /\ carts[req[p].cartId].cartStatus = "COMPLETED"
        /\ ItemRows(items[req[p].cartId]) = {}
        /\ Len(orders) = 1 /\ orders[1].status = "PENDING"
        /\ LineRows(orders[1].lines) # {}
        /\ txns = {}

\* C30: an account has role ADMIN or OWNER only if it had it initially or an
\* authenticated OWNER gave it to the existing account through
\* PUT /admin/users/:id/role; a registration produces no elevated account.
C30_NoSelfElevation ==
    [][\A a \in AccountIds :
         (/\ accounts'[a].role \in {"ADMIN", "OWNER"}
          /\ accounts'[a].role # accounts[a].role)
            => /\ accounts[a].exists
               /\ \E o \in AccountIds \ {a} : requireOwner(o)]_vars

====
